---- MODULE Spec2Model ----
(***************************************************************************)
(* Token lifecycle, session restoration, the auth slice of the Redux       *)
(* store and the axios 401 interceptor of content-manager.                 *)
(*                                                                         *)
(* localStorage is one record; a uuid is a fresh token id (1, 2, ...);     *)
(* Date.now() is the variable now, constant inside one synchronous block.  *)
(* Every action is one synchronous block of the JavaScript event loop:     *)
(* the code between two awaits.                                            *)
(***************************************************************************)
EXTENDS Integers, FiniteSets, Sequences, TLC

\* ------------------------------------------------------------------ bounds
MaxTokens == 4        \* uuids that may be generated in one behaviour
MaxEvents == 4        \* what one behaviour takes from outside: dispatches, api
                      \* calls, clock advances, edits of localStorage by hand

\* --------------------------------------------------------------- constants
ACCESS_TOKEN_EXPIRY == 15 * 60 * 1000
REFRESH_TOKEN_EXPIRY == 7 * 24 * 60 * 60 * 1000
MIN_PASSWORD_LENGTH == 4

Tokens == 1..MaxTokens
Requests == {1, 2}    \* the api calls that may be in flight together
NoToken == 0          \* null / a missing storage item
\* The instants the clock is read at. For a pair issued at 0: the access token
\* expires (now = expiresAt), the refresh token is in its last minutes, and
\* the refresh token expires.
Instants ==
  {0, ACCESS_TOKEN_EXPIRY, REFRESH_TOKEN_EXPIRY - 1, REFRESH_TOKEN_EXPIRY}

\* ------------------------------------------------------------------- users
NoUser == [id |-> "", email |-> "", name |-> "", role |-> "", avatar |-> ""]

\* public/mock-data/auth.json: the credential directory
mockUsers ==
  << [id |-> "1", email |-> "admin@example.com", password |-> "admin123",
      name |-> "Admin", role |-> "admin", avatar |-> ""],
     [id |-> "2", email |-> "user@example.com", password |-> "user123",
      name |-> "User", role |-> "user", avatar |-> ""] >>

NoCredential ==
  [id |-> "", email |-> "", password |-> "", name |-> "", role |-> "", avatar |-> ""]

UserOf(c) ==
  [id |-> c.id, email |-> c.email, name |-> c.name, role |-> c.role, avatar |-> c.avatar]

\* ---------------------------------------------------------- token metadata
\* A token_meta_<token> item: absent, text JSON.parse rejects, or the JSON of
\* a TokenMetadata.
NoMetadata ==
  [kind |-> "absent", userId |-> "", email |-> "", role |-> "", issuedAt |-> 0, expiresAt |-> 0]
GarbageItem ==
  [kind |-> "garbage", userId |-> "", email |-> "", role |-> "", issuedAt |-> 0, expiresAt |-> 0]
JsonItem(userId, email, role, issuedAt, expiresAt) ==
  [kind |-> "json", userId |-> userId, email |-> email, role |-> role,
   issuedAt |-> issuedAt, expiresAt |-> expiresAt]

defaultSettings == [theme |-> "light", language |-> "ko"]

EmptyStorage ==
  [accessToken |-> NoToken, refreshToken |-> NoToken, userInfo |-> NoUser,
   tokenMeta |-> [t \in Tokens |-> NoMetadata],
   customUsers |-> << >>, appSettings |-> defaultSettings]

\* ----------------------------------------------------------- token manager
generateAccessToken_RefreshLifetime(ls, token, user, t) ==
  [ls EXCEPT !.tokenMeta[token] =
     JsonItem(user.id, user.email, user.role, t, t + REFRESH_TOKEN_EXPIRY)]

\* generateAccessToken: token is the uuid drawn, t is Date.now()
generateAccessToken(ls, token, user, t) ==
  [ls EXCEPT !.tokenMeta[token] =
     JsonItem(user.id, user.email, user.role, t, t + ACCESS_TOKEN_EXPIRY)]

generateRefreshToken(ls, token, user, t) ==
  [ls EXCEPT !.tokenMeta[token] =
     JsonItem(user.id, user.email, user.role, t, t + REFRESH_TOKEN_EXPIRY)]

\* createTokenPair: two uuids, token and token + 1
createTokenPair(ls, token, user, t) ==
  [ls |-> generateRefreshToken(generateAccessToken(ls, token, user, t), token + 1, user, t),
   tokens |-> [accessToken |-> token, refreshToken |-> token + 1]]

\* getTokenMetadata: null (NoMetadata) for a missing item and when JSON.parse throws
getTokenMetadata(ls, token) ==
  IF token \notin Tokens THEN NoMetadata
  ELSE IF ls.tokenMeta[token].kind = "json" THEN ls.tokenMeta[token]
  ELSE NoMetadata

isTokenValid_Inclusive(ls, token, t) ==
  IF token = NoToken THEN FALSE
  ELSE IF getTokenMetadata(ls, token).kind # "json" THEN FALSE
  ELSE t <= getTokenMetadata(ls, token).expiresAt

isTokenValid(ls, token, t) ==
  IF token = NoToken THEN FALSE
  ELSE IF getTokenMetadata(ls, token).kind # "json" THEN FALSE
  ELSE t < getTokenMetadata(ls, token).expiresAt

refreshAccessToken_CappedAtRefresh(ls, refreshToken, token, t) ==
  IF ~isTokenValid(ls, refreshToken, t) THEN [ls |-> ls, accessToken |-> NoToken]
  ELSE IF getTokenMetadata(ls, refreshToken).kind # "json"
    THEN [ls |-> ls, accessToken |-> NoToken]
  ELSE LET metadata == getTokenMetadata(ls, refreshToken)
           expiresAt == IF t + ACCESS_TOKEN_EXPIRY < metadata.expiresAt
                          THEN t + ACCESS_TOKEN_EXPIRY ELSE metadata.expiresAt
       IN [ls |-> [ls EXCEPT !.tokenMeta[token] =
                     JsonItem(metadata.userId, metadata.email, metadata.role, t, expiresAt)],
           accessToken |-> token]

refreshAccessToken_FromUserInfo(ls, refreshToken, token, t) ==
  IF ~isTokenValid(ls, refreshToken, t) THEN [ls |-> ls, accessToken |-> NoToken]
  ELSE IF getTokenMetadata(ls, refreshToken).kind # "json"
    THEN [ls |-> ls, accessToken |-> NoToken]
  ELSE [ls |-> generateAccessToken(ls, token, ls.userInfo, t), accessToken |-> token]

refreshAccessToken_NoExpiryCheck(ls, refreshToken, token, t) ==
  IF getTokenMetadata(ls, refreshToken).kind # "json"
    THEN [ls |-> ls, accessToken |-> NoToken]
  ELSE LET metadata == getTokenMetadata(ls, refreshToken)
           user == [id |-> metadata.userId, email |-> metadata.email, name |-> "",
                    role |-> metadata.role, avatar |-> ""]
       IN [ls |-> generateAccessToken(ls, token, user, t), accessToken |-> token]

\* refreshAccessToken: accessToken = NoToken is the null return
refreshAccessToken(ls, refreshToken, token, t) ==
  IF ~isTokenValid(ls, refreshToken, t) THEN [ls |-> ls, accessToken |-> NoToken]
  ELSE IF getTokenMetadata(ls, refreshToken).kind # "json"
    THEN [ls |-> ls, accessToken |-> NoToken]
  ELSE LET metadata == getTokenMetadata(ls, refreshToken)
           user == [id |-> metadata.userId, email |-> metadata.email, name |-> "",
                    role |-> metadata.role, avatar |-> ""]
       IN [ls |-> generateAccessToken(ls, token, user, t), accessToken |-> token]

saveTokens_DropsOld(ls, tokens) ==
  [ls EXCEPT !.accessToken = tokens.accessToken, !.refreshToken = tokens.refreshToken,
             !.tokenMeta = IF ls.accessToken \in Tokens
                                /\ ls.accessToken # tokens.accessToken
                             THEN [@ EXCEPT ![ls.accessToken] = NoMetadata] ELSE @]

saveTokens(ls, tokens) ==
  [ls EXCEPT !.accessToken = tokens.accessToken, !.refreshToken = tokens.refreshToken]

NoTokens == [accessToken |-> NoToken, refreshToken |-> NoToken]

\* getStoredTokens: NoTokens is the null return
getStoredTokens(ls) ==
  IF ls.accessToken = NoToken \/ ls.refreshToken = NoToken THEN NoTokens
  ELSE [accessToken |-> ls.accessToken, refreshToken |-> ls.refreshToken]

RemoveMeta(meta, token) ==
  IF token \in Tokens THEN [meta EXCEPT ![token] = NoMetadata] ELSE meta

clearTokens_KeepMeta(ls) ==
  [ls EXCEPT !.accessToken = NoToken, !.refreshToken = NoToken, !.userInfo = NoUser]

clearTokens_Sweep(ls) ==
  [ls EXCEPT !.accessToken = NoToken, !.refreshToken = NoToken, !.userInfo = NoUser,
             !.tokenMeta = [t \in Tokens |-> NoMetadata]]

clearTokens(ls) ==
  [ls EXCEPT !.accessToken = NoToken, !.refreshToken = NoToken, !.userInfo = NoUser,
             !.tokenMeta = RemoveMeta(RemoveMeta(ls.tokenMeta, ls.accessToken),
                                      ls.refreshToken)]


\* ------------------------------------------------------------ auth service
NoResult ==
  [kind |-> "none", code |-> "", message |-> "", user |-> NoUser,
   accessToken |-> NoToken, refreshToken |-> NoToken]
Data(user, accessToken, refreshToken) ==
  [kind |-> "data", code |-> "", message |-> "", user |-> user,
   accessToken |-> accessToken, refreshToken |-> refreshToken]
Error(code, message) ==
  [kind |-> "error", code |-> code, message |-> message, user |-> NoUser,
   accessToken |-> NoToken, refreshToken |-> NoToken]

\* users.find(u => u.email === email && u.password === password): the first
\* match, NoCredential when there is none
FindCredential(users, email, password) ==
  LET hits == {i \in 1..Len(users) :
                 users[i].email = email /\ users[i].password = password}
  IN IF hits = {} THEN NoCredential
     ELSE users[CHOOSE i \in hits : \A j \in hits : i <= j]

login_NoMatchClears(ls, credentials, token, t) ==
  LET user == FindCredential(mockUsers, credentials.email, credentials.password)
  IN IF user.id = ""
       THEN [ls |-> clearTokens(ls), minted |-> 0,
             result |-> Error("INVALID_CREDENTIALS", "invalid email or password")]
     ELSE LET made == createTokenPair(ls, token, UserOf(user), t)
              saved == saveTokens(made.ls, made.tokens)
              userInfo == UserOf(user)
          IN [ls |-> [saved EXCEPT !.userInfo = userInfo], minted |-> 2,
              result |-> Data(userInfo, made.tokens.accessToken, made.tokens.refreshToken)]

\* login, from the resolved fetch of auth.json on: [ls, result, minted]
login(ls, credentials, token, t) ==
  LET user == FindCredential(mockUsers, credentials.email, credentials.password)
  IN IF user.id = ""
       THEN [ls |-> ls, minted |-> 0,
             result |-> Error("INVALID_CREDENTIALS", "invalid email or password")]
     ELSE LET made == createTokenPair(ls, token, UserOf(user), t)
              saved == saveTokens(made.ls, made.tokens)
              userInfo == UserOf(user)
          IN [ls |-> [saved EXCEPT !.userInfo = userInfo], minted |-> 2,
              result |-> Data(userInfo, made.tokens.accessToken, made.tokens.refreshToken)]

\* AuthError.code
AuthErrorCodes ==
  {"INVALID_CREDENTIALS", "TOKEN_EXPIRED", "TOKEN_INVALID", "SESSION_NOT_FOUND",
   "USER_NOT_FOUND", "UPDATE_FAILED", "INVALID_PASSWORD", "WEAK_PASSWORD",
   "SAME_PASSWORD"}

loginFault_Raw == Error("Failed to load auth data", "Failed to load auth data")

\* login when fetch rejects or the response is not ok: the catch block
loginFault == Error("TOKEN_INVALID", "login failed")

getSession_NoSave(ls, token, t) ==
  LET tokens == getStoredTokens(ls)
  IN IF tokens = NoTokens
       THEN [ls |-> ls, minted |-> 0,
             result |-> Error("SESSION_NOT_FOUND", "no stored session")]
     ELSE LET expired == ~isTokenValid(ls, tokens.accessToken, t)
              renewed == refreshAccessToken(ls, tokens.refreshToken, token, t)
          IN IF expired /\ renewed.accessToken = NoToken
               THEN [ls |-> clearTokens(ls), minted |-> 0,
                     result |-> Error("TOKEN_EXPIRED", "session expired")]
             ELSE LET accessToken == IF expired THEN renewed.accessToken
                                     ELSE tokens.accessToken
                      ls2 == IF expired THEN renewed.ls ELSE ls
                  IN IF ls2.userInfo = NoUser
                       THEN [ls |-> ls2, minted |-> IF expired THEN 1 ELSE 0,
                             result |-> Error("SESSION_NOT_FOUND", "no user info")]
                     ELSE [ls |-> ls2, minted |-> IF expired THEN 1 ELSE 0,
                           result |-> Data(ls2.userInfo, accessToken, NoToken)]

getSession_AlwaysRenew(ls, token, t) ==
  LET tokens == getStoredTokens(ls)
  IN IF tokens = NoTokens
       THEN [ls |-> ls, minted |-> 0,
             result |-> Error("SESSION_NOT_FOUND", "no stored session")]
     ELSE LET renewed == refreshAccessToken(ls, tokens.refreshToken, token, t)
          IN IF renewed.accessToken = NoToken
               THEN [ls |-> clearTokens(ls), minted |-> 0,
                     result |-> Error("TOKEN_EXPIRED", "session expired")]
             ELSE LET ls2 == saveTokens(renewed.ls,
                                 [accessToken |-> renewed.accessToken,
                                  refreshToken |-> tokens.refreshToken])
                  IN IF ls2.userInfo = NoUser
                       THEN [ls |-> ls2, minted |-> 1,
                             result |-> Error("SESSION_NOT_FOUND", "no user info")]
                     ELSE [ls |-> ls2, minted |-> 1,
                           result |-> Data(ls2.userInfo, renewed.accessToken, NoToken)]

\* getSession: [ls, result, minted]; token is the uuid a renewal would draw
getSession(ls, token, t) ==
  LET tokens == getStoredTokens(ls)
  IN IF tokens = NoTokens
       THEN [ls |-> ls, minted |-> 0,
             result |-> Error("SESSION_NOT_FOUND", "no stored session")]
     ELSE LET expired == ~isTokenValid(ls, tokens.accessToken, t)
              renewed == refreshAccessToken(ls, tokens.refreshToken, token, t)
          IN IF expired /\ renewed.accessToken = NoToken
               THEN [ls |-> clearTokens(ls), minted |-> 0,
                     result |-> Error("TOKEN_EXPIRED", "session expired")]
             ELSE LET accessToken == IF expired THEN renewed.accessToken
                                     ELSE tokens.accessToken
                      ls2 == IF expired
                               THEN saveTokens(renewed.ls,
                                      [accessToken |-> accessToken,
                                       refreshToken |-> tokens.refreshToken])
                             ELSE ls
                  IN IF ls2.userInfo = NoUser
                       THEN [ls |-> ls2, minted |-> IF expired THEN 1 ELSE 0,
                             result |-> Error("SESSION_NOT_FOUND", "no user info")]
                     ELSE [ls |-> ls2, minted |-> IF expired THEN 1 ELSE 0,
                           result |-> Data(ls2.userInfo, accessToken, NoToken)]

logout_KeepsRefreshToken(ls) ==
  [ls |-> [ls EXCEPT !.accessToken = NoToken, !.userInfo = NoUser,
                     !.tokenMeta = RemoveMeta(@, ls.accessToken)],
   minted |-> 0, result |-> Data(NoUser, NoToken, NoToken)]

logout_KeepUser(ls) ==
  [ls |-> [clearTokens(ls) EXCEPT !.userInfo = ls.userInfo], minted |-> 0,
   result |-> Data(NoUser, NoToken, NoToken)]

\* logout: clearTokens, { error: null }
logout(ls) ==
  [ls |-> clearTokens(ls), minted |-> 0, result |-> Data(NoUser, NoToken, NoToken)]

manualRefreshToken(ls, token, t) ==
  LET tokens == getStoredTokens(ls)
  IN IF tokens = NoTokens
       THEN [ls |-> ls, minted |-> 0,
             result |-> Error("SESSION_NOT_FOUND", "no stored tokens")]
     ELSE LET renewed == refreshAccessToken(ls, tokens.refreshToken, token, t)
          IN IF renewed.accessToken = NoToken
               THEN [ls |-> clearTokens(ls), minted |-> 0,
                     result |-> Error("TOKEN_EXPIRED", "refresh token expired")]
             ELSE [ls |-> saveTokens(renewed.ls,
                            [accessToken |-> renewed.accessToken,
                             refreshToken |-> tokens.refreshToken]),
                   minted |-> 1,
                   result |-> Data(NoUser, renewed.accessToken, NoToken)]

isAuthenticated_AccessOnly(ls, t) ==
  LET tokens == getStoredTokens(ls)
  IN IF tokens = NoTokens THEN FALSE
     ELSE isTokenValid(ls, tokens.accessToken, t)

isAuthenticated(ls, t) ==
  LET tokens == getStoredTokens(ls)
  IN IF tokens = NoTokens THEN FALSE
     ELSE isTokenValid(ls, tokens.accessToken, t) \/ isTokenValid(ls, tokens.refreshToken, t)


\* ------------------------------------------------------------ user service
Undefined == "undefined"      \* a parameter that was not given

\* String.length of the passwords of the model
Length(string) ==
  CASE string = "abc" -> 3
    [] string = "nope" -> 4
    [] string = "user123" -> 7
    [] string = "admin123" -> 8
    [] string = "admin456" -> 8

\* index of the first element with this id, 0 for none (find, findIndex)
IndexOfId(users, id) ==
  LET hits == {i \in 1..Len(users) : users[i].id = id}
  IN IF hits = {} THEN 0 ELSE CHOOSE i \in hits : \A j \in hits : i <= j

getCustomUsers(ls) == ls.customUsers

\* getAllUsers: the fixture with custom records laid over it by id; [] when
\* the fetch of auth.json fails
getAllUsers(ls, fetched) ==
  IF ~fetched THEN << >>
  ELSE [i \in 1..Len(mockUsers) |->
          LET k == IndexOfId(getCustomUsers(ls), mockUsers[i].id)
          IN IF k = 0 THEN mockUsers[i] ELSE getCustomUsers(ls)[k]]

getUserById(ls, userId, fetched) ==
  LET users == getAllUsers(ls, fetched)
      k == IndexOfId(users, userId)
  IN IF k = 0 THEN NoCredential ELSE users[k]

\* customUsers[existingIndex] = updatedUser, or push; saveCustomUsers
SaveCustomUser(ls, updatedUser) ==
  LET customUsers == getCustomUsers(ls)
      k == IndexOfId(customUsers, updatedUser.id)
  IN [ls EXCEPT !.customUsers = IF k = 0 THEN Append(customUsers, updatedUser)
                                ELSE [customUsers EXCEPT ![k] = updatedUser]]

OrElse(value, fallback) == IF value = Undefined THEN fallback ELSE value

\* updateProfile, from the resolved getUserById on: [ls, result]
updateProfile(ls, userId, params, fetched) ==
  LET currentUser == getUserById(ls, userId, fetched)
  IN IF currentUser = NoCredential
       THEN [ls |-> ls, result |-> Error("USER_NOT_FOUND", "user not found")]
     ELSE LET updatedUser == [currentUser EXCEPT
                                !.name = OrElse(params.name, currentUser.name),
                                !.email = OrElse(params.email, currentUser.email),
                                !.avatar = OrElse(params.avatar, currentUser.avatar)]
              userInfo == UserOf(updatedUser)
          IN [ls |-> [SaveCustomUser(ls, updatedUser) EXCEPT !.userInfo = userInfo],
              result |-> Data(userInfo, NoToken, NoToken)]

changePassword_WeakFirst(ls, userId, params, fetched) ==
  LET currentUser == getUserById(ls, userId, fetched)
  IN IF currentUser = NoCredential
       THEN [ls |-> ls, result |-> Error("USER_NOT_FOUND", "user not found")]
     ELSE IF Length(params.newPassword) < MIN_PASSWORD_LENGTH
       THEN [ls |-> ls, result |-> Error("WEAK_PASSWORD", "password too short")]
     ELSE IF currentUser.password # params.currentPassword
       THEN [ls |-> ls, result |-> Error("INVALID_PASSWORD", "wrong current password")]
     ELSE IF params.currentPassword = params.newPassword
       THEN [ls |-> ls, result |-> Error("SAME_PASSWORD", "same as current password")]
     ELSE [ls |-> SaveCustomUser(ls, [currentUser EXCEPT !.password = params.newPassword]),
           result |-> Data(NoUser, NoToken, NoToken)]

\* changePassword, from the resolved getUserById on: [ls, result]
changePassword(ls, userId, params, fetched) ==
  LET currentUser == getUserById(ls, userId, fetched)
  IN IF currentUser = NoCredential
       THEN [ls |-> ls, result |-> Error("USER_NOT_FOUND", "user not found")]
     ELSE IF currentUser.password # params.currentPassword
       THEN [ls |-> ls, result |-> Error("INVALID_PASSWORD", "wrong current password")]
     ELSE IF Length(params.newPassword) < MIN_PASSWORD_LENGTH
       THEN [ls |-> ls, result |-> Error("WEAK_PASSWORD", "password too short")]
     ELSE IF params.currentPassword = params.newPassword
       THEN [ls |-> ls, result |-> Error("SAME_PASSWORD", "same as current password")]
     ELSE [ls |-> SaveCustomUser(ls, [currentUser EXCEPT !.password = params.newPassword]),
           result |-> Data(NoUser, NoToken, NoToken)]

\* -------------------------------------------------------------- auth slice
initialState ==
  [user |-> NoUser, accessToken |-> NoToken, isAuthenticated |-> FALSE,
   loading |-> FALSE, error |-> ""]

clearError(state) == [state EXCEPT !.error = ""]

setAccessToken(state, payload) == [state EXCEPT !.accessToken = payload]

clearAuth_KeepToken(state) ==
  [state EXCEPT !.user = NoUser, !.isAuthenticated = FALSE, !.loading = FALSE, !.error = ""]

clearAuth(state) ==
  [state EXCEPT !.user = NoUser, !.accessToken = NoToken, !.isAuthenticated = FALSE,
                !.loading = FALSE, !.error = ""]

pending(state) == [state EXCEPT !.loading = TRUE, !.error = ""]

loginFulfilled_WithoutToken(state, payload) ==
  [state EXCEPT !.loading = FALSE, !.user = payload.user, !.isAuthenticated = TRUE,
                !.error = ""]

loginFulfilled(state, payload) ==
  [state EXCEPT !.loading = FALSE, !.user = payload.user,
                !.accessToken = payload.accessToken, !.isAuthenticated = TRUE, !.error = ""]

loginRejected_Silent(state, payload) ==
  [state EXCEPT !.loading = FALSE, !.error = "", !.isAuthenticated = FALSE]

loginRejected(state, payload) ==
  [state EXCEPT !.loading = FALSE,
                !.error = IF payload = "" THEN "login failed" ELSE payload,
                !.isAuthenticated = FALSE]

getSessionFulfilled(state, payload) ==
  [state EXCEPT !.loading = FALSE, !.user = payload.user,
                !.accessToken = payload.accessToken, !.isAuthenticated = TRUE, !.error = ""]

getSessionRejected(state) ==
  [state EXCEPT !.loading = FALSE, !.error = "", !.isAuthenticated = FALSE]

logoutFulfilled_KeepsUser(state) ==
  [state EXCEPT !.accessToken = NoToken, !.isAuthenticated = FALSE,
                !.loading = FALSE, !.error = ""]

logoutFulfilled(state) ==
  [state EXCEPT !.user = NoUser, !.accessToken = NoToken, !.isAuthenticated = FALSE,
                !.loading = FALSE, !.error = ""]

refreshTokenFulfilled(state, payload) == [state EXCEPT !.accessToken = payload.accessToken]

refreshTokenRejected(state, payload) ==
  [state EXCEPT !.error = IF payload = "" THEN "token refresh failed" ELSE payload,
                !.isAuthenticated = FALSE]

updateProfileFulfilled(state, payload) ==
  [state EXCEPT !.loading = FALSE, !.user = payload, !.error = ""]

updateProfileRejected(state, payload) ==
  [state EXCEPT !.loading = FALSE,
                !.error = IF payload = "" THEN "profile update failed" ELSE payload]

changePasswordFulfilled(state) == [state EXCEPT !.loading = FALSE, !.error = ""]

changePasswordRejected(state, payload) ==
  [state EXCEPT !.loading = FALSE,
                !.error = IF payload = "" THEN "password change failed" ELSE payload]

\* ------------------------------------------------------------------- state
VARIABLES
  localStorage,   \* the browser's localStorage
  now,            \* Date.now()
  nextToken,      \* the next uuid
  auth,           \* store.getState().auth
  loginOp,        \* loginThunk in flight
  sessionOp,      \* getSessionThunk in flight
  logoutOp,       \* logoutThunk in flight
  refreshOp,      \* refreshTokenThunk in flight
  profileOp,      \* updateProfileThunk in flight
  passwordOp,     \* changePasswordThunk in flight
  req,            \* the api calls through axiosInstance
  events          \* dispatches, api calls, clock advances and edits so far

vars == <<localStorage, now, nextToken, auth, loginOp, sessionOp, logoutOp,
          refreshOp, profileOp, passwordOp, req, events>>

\* what the profile form submits: an email another user has, and a new name
ProfileEdits ==
  { [userId |-> "2", name |-> Undefined, email |-> "admin@example.com",
     avatar |-> Undefined],
    [userId |-> "1", name |-> "Root", email |-> Undefined, avatar |-> Undefined] }

\* what the password form submits: one input for each outcome
PasswordChanges ==
  { [userId |-> "9", currentPassword |-> "admin123", newPassword |-> "admin456"],
    [userId |-> "1", currentPassword |-> "nope", newPassword |-> "abc"],
    [userId |-> "1", currentPassword |-> "admin123", newPassword |-> "abc"],
    [userId |-> "1", currentPassword |-> "admin123", newPassword |-> "admin123"],
    [userId |-> "1", currentPassword |-> "admin123", newPassword |-> "admin456"] }

\* what the login form submits: each user's credentials and a wrong password
Credentials ==
  { [email |-> "admin@example.com", password |-> "admin123"],
    [email |-> "user@example.com", password |-> "user123"],
    [email |-> "admin@example.com", password |-> "user123"] }

IdleOp == [pc |-> "idle", result |-> NoResult]
IdleLogin == [pc |-> "idle", email |-> "", password |-> "", result |-> NoResult]
IdleProfile ==
  [pc |-> "idle", userId |-> "", name |-> Undefined, email |-> Undefined,
   avatar |-> Undefined, result |-> NoResult]
IdlePassword ==
  [pc |-> "idle", userId |-> "", currentPassword |-> "", newPassword |-> "",
   result |-> NoResult]
IdleRequest ==
  [pc |-> "idle", isRetry |-> FALSE, sends |-> 0, authorization |-> NoToken,
   requestId |-> FALSE, status |-> 0, outcome |-> "none", error |-> "none",
   renewed |-> NoToken]

Init ==
  /\ localStorage = EmptyStorage
  /\ now = 0
  /\ nextToken = 1
  /\ auth = initialState
  /\ loginOp = IdleLogin
  /\ sessionOp = IdleOp
  /\ logoutOp = IdleOp
  /\ refreshOp = IdleOp
  /\ profileOp = IdleProfile
  /\ passwordOp = IdlePassword
  /\ req = [r \in Requests |-> IdleRequest]
  /\ events = 0

\* the uuids an operation draws are there to be drawn
CanMint(n) == nextToken + n - 1 <= MaxTokens


\* ------------------------------------------------------------ loginThunk
\* dispatch(loginThunk(credentials)): pending, then login awaits fetch
LoginStart(email, password) ==
  /\ events < MaxEvents
  /\ events' = events + 1
  /\ loginOp.pc = "idle"
  /\ auth' = pending(auth)
  /\ loginOp' = [pc |-> "fetching", email |-> email, password |-> password,
                 result |-> NoResult]
  /\ UNCHANGED <<localStorage, now, nextToken, sessionOp, logoutOp, refreshOp, profileOp, passwordOp, req>>

\* fetch resolved with auth.json: the rest of login
LoginFetched ==
  /\ UNCHANGED events
  /\ loginOp.pc = "fetching"
  /\ LET r == login(localStorage, loginOp, nextToken, now)
     IN /\ CanMint(r.minted)
        /\ localStorage' = r.ls
        /\ nextToken' = nextToken + r.minted
        /\ loginOp' = [loginOp EXCEPT !.pc = "returned", !.result = r.result]
  /\ UNCHANGED <<now, auth, sessionOp, logoutOp, refreshOp, profileOp, passwordOp, req>>

\* fetch rejected, or the response is not ok
LoginFetchFailed ==
  /\ UNCHANGED events
  /\ loginOp.pc = "fetching"
  /\ loginOp' = [loginOp EXCEPT !.pc = "returned", !.result = loginFault]
  /\ UNCHANGED <<localStorage, now, nextToken, auth, sessionOp, logoutOp,
                 refreshOp, profileOp, passwordOp, req>>

\* the thunk's fulfilled / rejected action reaches the reducer
LoginSettle ==
  /\ UNCHANGED events
  /\ loginOp.pc = "returned"
  /\ auth' = IF loginOp.result.kind = "data"
               THEN loginFulfilled(auth, [user |-> loginOp.result.user,
                                          accessToken |-> loginOp.result.accessToken])
             ELSE loginRejected(auth, loginOp.result.message)
  /\ loginOp' = IdleLogin
  /\ UNCHANGED <<localStorage, now, nextToken, sessionOp, logoutOp, refreshOp, profileOp, passwordOp, req>>

\* -------------------------------------------------------- getSessionThunk
\* dispatch(getSessionThunk()): pending, then getSession runs to its return
SessionStart ==
  /\ events < MaxEvents
  /\ events' = events + 1
  /\ sessionOp.pc = "idle"
  /\ LET r == getSession(localStorage, nextToken, now)
     IN /\ CanMint(r.minted)
        /\ localStorage' = r.ls
        /\ nextToken' = nextToken + r.minted
        /\ sessionOp' = [pc |-> "returned", result |-> r.result]
  /\ auth' = pending(auth)
  /\ UNCHANGED <<now, loginOp, logoutOp, refreshOp, profileOp, passwordOp, req>>

SessionSettle ==
  /\ UNCHANGED events
  /\ sessionOp.pc = "returned"
  /\ auth' = IF sessionOp.result.kind = "data"
               THEN getSessionFulfilled(auth, [user |-> sessionOp.result.user,
                                               accessToken |-> sessionOp.result.accessToken])
             ELSE getSessionRejected(auth)
  /\ sessionOp' = IdleOp
  /\ UNCHANGED <<localStorage, now, nextToken, loginOp, logoutOp, refreshOp, profileOp, passwordOp, req>>

\* ------------------------------------------------------------ logoutThunk
LogoutStart ==
  /\ events < MaxEvents
  /\ events' = events + 1
  /\ logoutOp.pc = "idle"
  /\ LET r == logout(localStorage)
     IN /\ localStorage' = r.ls
        /\ logoutOp' = [pc |-> "returned", result |-> r.result]
  /\ UNCHANGED <<now, nextToken, auth, loginOp, sessionOp, refreshOp, profileOp, passwordOp, req>>

LogoutSettle ==
  /\ UNCHANGED events
  /\ logoutOp.pc = "returned"
  /\ auth' = IF logoutOp.result.kind = "data" THEN logoutFulfilled(auth) ELSE auth
  /\ logoutOp' = IdleOp
  /\ UNCHANGED <<localStorage, now, nextToken, loginOp, sessionOp, refreshOp, profileOp, passwordOp, req>>

\* ------------------------------------------------------ refreshTokenThunk
RefreshStart ==
  /\ events < MaxEvents
  /\ events' = events + 1
  /\ refreshOp.pc = "idle"
  /\ LET r == manualRefreshToken(localStorage, nextToken, now)
     IN /\ CanMint(r.minted)
        /\ localStorage' = r.ls
        /\ nextToken' = nextToken + r.minted
        /\ refreshOp' = [pc |-> "returned", result |-> r.result]
  /\ UNCHANGED <<now, auth, loginOp, sessionOp, logoutOp, profileOp, passwordOp, req>>

RefreshSettle ==
  /\ UNCHANGED events
  /\ refreshOp.pc = "returned"
  /\ auth' = IF refreshOp.result.kind = "data"
               THEN refreshTokenFulfilled(auth, [accessToken |-> refreshOp.result.accessToken])
             ELSE refreshTokenRejected(auth, refreshOp.result.message)
  /\ refreshOp' = IdleOp
  /\ UNCHANGED <<localStorage, now, nextToken, loginOp, sessionOp, logoutOp, profileOp, passwordOp, req>>


\* ------------------------------------------------------ updateProfileThunk
\* dispatch(updateProfileThunk({userId, params})): pending, then getUserById
\* awaits the fetch of auth.json
ProfileStart(edit) ==
  /\ events < MaxEvents
  /\ events' = events + 1
  /\ profileOp.pc = "idle"
  /\ auth' = pending(auth)
  /\ profileOp' = [pc |-> "fetching", userId |-> edit.userId, name |-> edit.name,
                   email |-> edit.email, avatar |-> edit.avatar, result |-> NoResult]
  /\ UNCHANGED <<localStorage, now, nextToken, loginOp, sessionOp, logoutOp, refreshOp,
                 passwordOp, req>>

\* the fetch settled: the rest of updateProfile
ProfileFetched(fetched) ==
  /\ UNCHANGED events
  /\ profileOp.pc = "fetching"
  /\ LET r == updateProfile(localStorage, profileOp.userId, profileOp, fetched)
     IN /\ localStorage' = r.ls
        /\ profileOp' = [profileOp EXCEPT !.pc = "returned", !.result = r.result]
  /\ UNCHANGED <<now, nextToken, auth, loginOp, sessionOp, logoutOp, refreshOp,
                 passwordOp, req>>

ProfileSettle ==
  /\ UNCHANGED events
  /\ profileOp.pc = "returned"
  /\ auth' = IF profileOp.result.kind = "data"
               THEN updateProfileFulfilled(auth, profileOp.result.user)
             ELSE updateProfileRejected(auth, profileOp.result.message)
  /\ profileOp' = IdleProfile
  /\ UNCHANGED <<localStorage, now, nextToken, loginOp, sessionOp, logoutOp, refreshOp,
                 passwordOp, req>>

\* ----------------------------------------------------- changePasswordThunk
PasswordStart(change) ==
  /\ events < MaxEvents
  /\ events' = events + 1
  /\ passwordOp.pc = "idle"
  /\ auth' = pending(auth)
  /\ passwordOp' = [pc |-> "fetching", userId |-> change.userId,
                    currentPassword |-> change.currentPassword,
                    newPassword |-> change.newPassword, result |-> NoResult]
  /\ UNCHANGED <<localStorage, now, nextToken, loginOp, sessionOp, logoutOp, refreshOp,
                 profileOp, req>>

PasswordFetched(fetched) ==
  /\ UNCHANGED events
  /\ passwordOp.pc = "fetching"
  /\ LET r == changePassword(localStorage, passwordOp.userId, passwordOp, fetched)
     IN /\ localStorage' = r.ls
        /\ passwordOp' = [passwordOp EXCEPT !.pc = "returned", !.result = r.result]
  /\ UNCHANGED <<now, nextToken, auth, loginOp, sessionOp, logoutOp, refreshOp,
                 profileOp, req>>

PasswordSettle ==
  /\ UNCHANGED events
  /\ passwordOp.pc = "returned"
  /\ auth' = IF passwordOp.result.kind = "data"
               THEN changePasswordFulfilled(auth)
             ELSE changePasswordRejected(auth, passwordOp.result.message)
  /\ passwordOp' = IdlePassword
  /\ UNCHANGED <<localStorage, now, nextToken, loginOp, sessionOp, logoutOp, refreshOp,
                 profileOp, req>>

\* ----------------------------------------------------------- axios instance
requestInterceptor_StoreOnly(ls, state, config) ==
  [config EXCEPT !.authorization =
                   IF state.accessToken # NoToken THEN state.accessToken ELSE @,
                 !.requestId = TRUE]

\* the request interceptor: the bearer token from the store, else from
\* localStorage; X-Request-ID always
requestInterceptor(ls, state, config) ==
  LET token == IF state.accessToken # NoToken THEN state.accessToken
               ELSE getStoredTokens(ls).accessToken
  IN [config EXCEPT !.authorization = IF token # NoToken THEN token ELSE @,
                    !.requestId = TRUE]

Rejected(config, status) ==
  [config EXCEPT !.pc = "done", !.status = status, !.outcome = "rejected",
                 !.error = "AxiosError"]

responseError_NoRetryFlag(ls, state, config, status, token, t) ==
  IF status = 401
    THEN LET tokens == getStoredTokens(ls)
             renewed == refreshAccessToken(ls, tokens.refreshToken, token, t)
         IN IF tokens.refreshToken # NoToken
                 /\ isTokenValid(ls, tokens.refreshToken, t)
                 /\ renewed.accessToken # NoToken
              THEN [ls |-> saveTokens(renewed.ls,
                             [accessToken |-> renewed.accessToken,
                              refreshToken |-> tokens.refreshToken]),
                    auth |-> setAccessToken(state, renewed.accessToken),
                    config |-> [config EXCEPT !.authorization = renewed.accessToken,
                                              !.renewed = renewed.accessToken,
                                              !.status = status, !.pc = "config"],
                    minted |-> 1]
            ELSE [ls |-> ls, auth |-> clearAuth(state),
                  config |-> Rejected(config, status), minted |-> 0]
  ELSE [ls |-> ls, auth |-> state, config |-> Rejected(config, status), minted |-> 0]

responseError_SharesRenewal(ls, state, config, status, token, t) ==
  IF status = 401 /\ ~config.isRetry
    THEN LET tokens == getStoredTokens(ls)
             shared == /\ tokens.accessToken # config.authorization
                       /\ isTokenValid(ls, tokens.accessToken, t)
             renewed == IF shared THEN [ls |-> ls, accessToken |-> tokens.accessToken]
                        ELSE refreshAccessToken(ls, tokens.refreshToken, token, t)
         IN IF tokens.refreshToken # NoToken
                 /\ isTokenValid(ls, tokens.refreshToken, t)
                 /\ renewed.accessToken # NoToken
              THEN [ls |-> saveTokens(renewed.ls,
                             [accessToken |-> renewed.accessToken,
                              refreshToken |-> tokens.refreshToken]),
                    auth |-> setAccessToken(state, renewed.accessToken),
                    config |-> [config EXCEPT !.isRetry = TRUE,
                                              !.authorization = renewed.accessToken,
                                              !.renewed = renewed.accessToken,
                                              !.status = status, !.pc = "config"],
                    minted |-> IF shared THEN 0 ELSE 1]
            ELSE [ls |-> ls, auth |-> clearAuth(state),
                  config |-> [Rejected(config, status) EXCEPT !.isRetry = TRUE],
                  minted |-> 0]
  ELSE [ls |-> ls, auth |-> state, config |-> Rejected(config, status), minted |-> 0]

responseError_ResendBeforePersist(ls, state, config, status, token, t) ==
  IF status = 401 /\ ~config.isRetry
    THEN LET tokens == getStoredTokens(ls)
             renewed == refreshAccessToken(ls, tokens.refreshToken, token, t)
         IN IF tokens.refreshToken # NoToken
                 /\ isTokenValid(ls, tokens.refreshToken, t)
                 /\ renewed.accessToken # NoToken
              THEN [ls |-> renewed.ls,
                    auth |-> state,
                    config |-> [config EXCEPT !.isRetry = TRUE,
                                              !.authorization = renewed.accessToken,
                                              !.renewed = renewed.accessToken,
                                              !.status = status, !.pc = "config"],
                    minted |-> 1]
            ELSE [ls |-> ls, auth |-> clearAuth(state),
                  config |-> [Rejected(config, status) EXCEPT !.isRetry = TRUE],
                  minted |-> 0]
  ELSE [ls |-> ls, auth |-> state, config |-> Rejected(config, status), minted |-> 0]

\* the response interceptor's error handler, to its return: [ls, auth, config,
\* minted]. pc = "config" is return axiosInstance(originalRequest), whose
\* rejection the surrounding try does not see (the promise is returned, not
\* awaited); window.location.href = '/login' is left to the browser.
responseError(ls, state, config, status, token, t) ==
  IF status = 401 /\ ~config.isRetry
    THEN LET tokens == getStoredTokens(ls)
             renewed == refreshAccessToken(ls, tokens.refreshToken, token, t)
         IN IF tokens.refreshToken # NoToken
                 /\ isTokenValid(ls, tokens.refreshToken, t)
                 /\ renewed.accessToken # NoToken
              THEN [ls |-> saveTokens(renewed.ls,
                             [accessToken |-> renewed.accessToken,
                              refreshToken |-> tokens.refreshToken]),
                    auth |-> setAccessToken(state, renewed.accessToken),
                    config |-> [config EXCEPT !.isRetry = TRUE,
                                              !.authorization = renewed.accessToken,
                                              !.renewed = renewed.accessToken,
                                              !.status = status, !.pc = "config"],
                    minted |-> 1]
            ELSE [ls |-> ls, auth |-> clearAuth(state),
                  config |-> [Rejected(config, status) EXCEPT !.isRetry = TRUE],
                  minted |-> 0]
  ELSE [ls |-> ls, auth |-> state, config |-> Rejected(config, status), minted |-> 0]

ErrorStatuses == {401, 500}

\* apiClient.get(...): a new call enters the request interceptor chain
RequestStart(r) ==
  /\ events < MaxEvents
  /\ events' = events + 1
  /\ req[r].pc = "idle"
  /\ \A q \in Requests : q < r => req[q].pc # "idle"
  /\ req' = [req EXCEPT ![r] = [IdleRequest EXCEPT !.pc = "config", !.outcome = "pending"]]
  /\ UNCHANGED <<localStorage, now, nextToken, auth, loginOp, sessionOp, logoutOp,
                 refreshOp, profileOp, passwordOp>>

\* the request interceptor runs and the request goes out
RequestSend(r) ==
  /\ UNCHANGED events
  /\ req[r].pc = "config"
  /\ req' = [req EXCEPT ![r] =
               [requestInterceptor(localStorage, auth, req[r])
                  EXCEPT !.pc = "sent", !.sends = @ + 1]]
  /\ UNCHANGED <<localStorage, now, nextToken, auth, loginOp, sessionOp, logoutOp,
                 refreshOp, profileOp, passwordOp>>

\* a 2xx response passes through
ResponseOk(r) ==
  /\ UNCHANGED events
  /\ req[r].pc = "sent"
  /\ req' = [req EXCEPT ![r] = [@ EXCEPT !.pc = "done", !.status = 200,
                                         !.outcome = "resolved"]]
  /\ UNCHANGED <<localStorage, now, nextToken, auth, loginOp, sessionOp, logoutOp,
                 refreshOp, profileOp, passwordOp>>

\* an error response reaches the response interceptor
ResponseError(r, status) ==
  /\ UNCHANGED events
  /\ req[r].pc = "sent"
  /\ LET h == responseError(localStorage, auth, req[r], status, nextToken, now)
     IN /\ CanMint(h.minted)
        /\ localStorage' = h.ls
        /\ auth' = h.auth
        /\ nextToken' = nextToken + h.minted
        /\ req' = [req EXCEPT ![r] = h.config]
  /\ UNCHANGED <<now, loginOp, sessionOp, logoutOp, refreshOp, profileOp, passwordOp>>

\* ------------------------------------------------------------- environment
\* time passes
Tick(t) ==
  /\ events < MaxEvents
  /\ events' = events + 1
  /\ t > now
  /\ now' = t
  /\ UNCHANGED <<localStorage, nextToken, auth, loginOp, sessionOp, logoutOp, refreshOp, profileOp, passwordOp, req>>

\* the user or the browser removes the token_meta_ item of a stored token
MetaItemRemoved(token) ==
  /\ events < MaxEvents
  /\ events' = events + 1
  /\ token \in {localStorage.accessToken, localStorage.refreshToken}
  /\ localStorage.tokenMeta[token].kind # "absent"
  /\ localStorage' = [localStorage EXCEPT !.tokenMeta[token] = NoMetadata]
  /\ UNCHANGED <<now, nextToken, auth, loginOp, sessionOp, logoutOp, refreshOp, profileOp, passwordOp, req>>

\* the token_meta_ item of a stored token is overwritten with text that is no JSON
MetaItemCorrupted(token) ==
  /\ events < MaxEvents
  /\ events' = events + 1
  /\ token \in {localStorage.accessToken, localStorage.refreshToken}
  /\ localStorage.tokenMeta[token].kind = "json"
  /\ localStorage' = [localStorage EXCEPT !.tokenMeta[token] = GarbageItem]
  /\ UNCHANGED <<now, nextToken, auth, loginOp, sessionOp, logoutOp, refreshOp, profileOp, passwordOp, req>>

Themes == {"light", "dark"}

\* settings slice, setTheme: saveSettings writes app_settings
SetTheme(theme) ==
  /\ events < MaxEvents
  /\ events' = events + 1
  /\ localStorage.appSettings.theme # theme
  /\ localStorage' = [localStorage EXCEPT !.appSettings.theme = theme]
  /\ UNCHANGED <<now, nextToken, auth, loginOp, sessionOp, logoutOp, refreshOp, profileOp, passwordOp, req>>

\* the session thunks, the clock and the settings, part of both specifications
SessionNext ==
  \/ \E c \in Credentials : LoginStart(c.email, c.password)
  \/ LoginFetched
  \/ LoginFetchFailed
  \/ LoginSettle
  \/ SessionStart
  \/ SessionSettle
  \/ LogoutStart
  \/ LogoutSettle
  \/ RefreshStart
  \/ RefreshSettle
  \/ \E t \in Instants : Tick(t)
  \/ \E theme \in Themes : SetTheme(theme)

\* the session and the HTTP client
Next ==
  \/ SessionNext
  \/ \E r \in Requests : RequestStart(r)
  \/ \E r \in Requests : RequestSend(r)
  \/ \E r \in Requests : ResponseOk(r)
  \/ \E r \in Requests, status \in ErrorStatuses : ResponseError(r, status)
  \/ \E token \in Tokens : MetaItemRemoved(token)
  \/ \E token \in Tokens : MetaItemCorrupted(token)

Spec == Init /\ [][Next]_vars

\* the session and the account forms
UserNext ==
  \/ SessionNext
  \/ \E edit \in ProfileEdits : ProfileStart(edit)
  \/ \E fetched \in BOOLEAN : ProfileFetched(fetched)
  \/ ProfileSettle
  \/ \E change \in PasswordChanges : PasswordStart(change)
  \/ \E fetched \in BOOLEAN : PasswordFetched(fetched)
  \/ PasswordSettle

UserSpec == Init /\ [][UserNext]_vars


\* ---------------------------------------------------------------- the slice
\* The reducers of authSlice taken one dispatch at a time, in any order. A
\* fulfilled login or getSession carries a user and a token (the thunks reject
\* when data is missing), setAccessToken a string, a rejection the message of
\* rejectWithValue or none.
PayloadUsers == {UserOf(mockUsers[i]) : i \in 1..Len(mockUsers)}
RejectValues == {"", "rejected"}

\* dispatch(clearError())
ClearError ==
  /\ auth' = clearError(auth)
  /\ UNCHANGED <<localStorage, now, nextToken, loginOp, sessionOp, logoutOp, refreshOp,
                 profileOp, passwordOp, req, events>>

\* dispatch(setAccessToken(token))
SetAccessToken(token) ==
  /\ auth' = setAccessToken(auth, token)
  /\ UNCHANGED <<localStorage, now, nextToken, loginOp, sessionOp, logoutOp, refreshOp,
                 profileOp, passwordOp, req, events>>

\* dispatch(clearAuth())
ClearAuth ==
  /\ auth' = clearAuth(auth)
  /\ UNCHANGED <<localStorage, now, nextToken, loginOp, sessionOp, logoutOp, refreshOp,
                 profileOp, passwordOp, req, events>>

\* a thunk with a pending case is dispatched
Pending ==
  /\ auth' = pending(auth)
  /\ UNCHANGED <<localStorage, now, nextToken, loginOp, sessionOp, logoutOp, refreshOp,
                 profileOp, passwordOp, req, events>>

\* loginThunk.fulfilled
LoginFulfilled(user, token) ==
  /\ auth' = loginFulfilled(auth, [user |-> user, accessToken |-> token])
  /\ UNCHANGED <<localStorage, now, nextToken, loginOp, sessionOp, logoutOp, refreshOp,
                 profileOp, passwordOp, req, events>>

\* loginThunk.rejected
LoginRejected(message) ==
  /\ auth' = loginRejected(auth, message)
  /\ UNCHANGED <<localStorage, now, nextToken, loginOp, sessionOp, logoutOp, refreshOp,
                 profileOp, passwordOp, req, events>>

\* getSessionThunk.fulfilled
GetSessionFulfilled(user, token) ==
  /\ auth' = getSessionFulfilled(auth, [user |-> user, accessToken |-> token])
  /\ UNCHANGED <<localStorage, now, nextToken, loginOp, sessionOp, logoutOp, refreshOp,
                 profileOp, passwordOp, req, events>>

\* getSessionThunk.rejected
GetSessionRejected ==
  /\ auth' = getSessionRejected(auth)
  /\ UNCHANGED <<localStorage, now, nextToken, loginOp, sessionOp, logoutOp, refreshOp,
                 profileOp, passwordOp, req, events>>

\* logoutThunk.fulfilled
LogoutFulfilled ==
  /\ auth' = logoutFulfilled(auth)
  /\ UNCHANGED <<localStorage, now, nextToken, loginOp, sessionOp, logoutOp, refreshOp,
                 profileOp, passwordOp, req, events>>

\* refreshTokenThunk.fulfilled
RefreshTokenFulfilled(token) ==
  /\ auth' = refreshTokenFulfilled(auth, [accessToken |-> token])
  /\ UNCHANGED <<localStorage, now, nextToken, loginOp, sessionOp, logoutOp, refreshOp,
                 profileOp, passwordOp, req, events>>

\* refreshTokenThunk.rejected
RefreshTokenRejected(message) ==
  /\ auth' = refreshTokenRejected(auth, message)
  /\ UNCHANGED <<localStorage, now, nextToken, loginOp, sessionOp, logoutOp, refreshOp,
                 profileOp, passwordOp, req, events>>

\* updateProfileThunk.fulfilled
UpdateProfileFulfilled(user) ==
  /\ auth' = updateProfileFulfilled(auth, user)
  /\ UNCHANGED <<localStorage, now, nextToken, loginOp, sessionOp, logoutOp, refreshOp,
                 profileOp, passwordOp, req, events>>

\* updateProfileThunk.rejected
UpdateProfileRejected(message) ==
  /\ auth' = updateProfileRejected(auth, message)
  /\ UNCHANGED <<localStorage, now, nextToken, loginOp, sessionOp, logoutOp, refreshOp,
                 profileOp, passwordOp, req, events>>

\* changePasswordThunk.fulfilled
ChangePasswordFulfilled ==
  /\ auth' = changePasswordFulfilled(auth)
  /\ UNCHANGED <<localStorage, now, nextToken, loginOp, sessionOp, logoutOp, refreshOp,
                 profileOp, passwordOp, req, events>>

\* changePasswordThunk.rejected
ChangePasswordRejected(message) ==
  /\ auth' = changePasswordRejected(auth, message)
  /\ UNCHANGED <<localStorage, now, nextToken, loginOp, sessionOp, logoutOp, refreshOp,
                 profileOp, passwordOp, req, events>>

SliceNext ==
  \/ ClearError
  \/ \E token \in Tokens : SetAccessToken(token)
  \/ ClearAuth
  \/ Pending
  \/ \E user \in PayloadUsers, token \in Tokens : LoginFulfilled(user, token)
  \/ \E message \in RejectValues : LoginRejected(message)
  \/ \E user \in PayloadUsers, token \in Tokens : GetSessionFulfilled(user, token)
  \/ GetSessionRejected
  \/ LogoutFulfilled
  \/ \E token \in Tokens : RefreshTokenFulfilled(token)
  \/ \E message \in RejectValues : RefreshTokenRejected(message)
  \/ \E user \in PayloadUsers : UpdateProfileFulfilled(user)
  \/ \E message \in RejectValues : UpdateProfileRejected(message)
  \/ ChangePasswordFulfilled
  \/ \E message \in RejectValues : ChangePasswordRejected(message)

SliceSpec == Init /\ [][SliceNext]_vars

\* ------------------------------------------------------------------ claims
PairStored == getStoredTokens(localStorage) # NoTokens

SessionKeysRemoved(ls) ==
  ls.accessToken = NoToken /\ ls.refreshToken = NoToken /\ ls.userInfo = NoUser

\* a response reached the response interceptor of call r in this step
Responded(r) == req[r].pc = "sent" /\ req'[r] # req[r]

\* C1: a request is sent at most twice: a 401 on the resend (the retried flag
\* is set) starts no renewal and no resend, writes nothing, and the call is
\* rejected to its caller.
C1_AtMostOneResend ==
  [][\A r \in Requests :
       /\ req'[r].sends <= 2
       /\ (Responded(r) /\ req[r].isRetry /\ req'[r].status = 401)
            => /\ req'[r].pc = "done"
               /\ req'[r].outcome = "rejected"
               /\ req'[r].sends = req[r].sends
               /\ nextToken' = nextToken
               /\ localStorage' = localStorage
               /\ auth' = auth]_vars

C1_Witness ==
  \E r \in Requests :
    /\ req[r].pc = "done" /\ req[r].outcome = "rejected"
    /\ req[r].isRetry /\ req[r].sends = 2 /\ req[r].status = 401

\* C2: a first 401 whose renewal fails (no pair stored, or the refresh token
\* is not valid) is not resent: the auth state is reset to its initial value
\* and the caller is rejected with the 401 error of the response.
C2_RenewalFailure ==
  [][\A r \in Requests :
       (/\ Responded(r) /\ ~req[r].isRetry /\ req'[r].status = 401
        /\ (~PairStored \/ ~isTokenValid(localStorage, localStorage.refreshToken, now)))
         => /\ req'[r].pc = "done"
            /\ req'[r].sends = req[r].sends
            /\ req'[r].outcome = "rejected"
            /\ req'[r].error = "AxiosError"
            /\ nextToken' = nextToken
            /\ auth' = initialState]_vars

C2_Witness ==
  \E r \in Requests :
    /\ req[r].pc = "done" /\ req[r].outcome = "rejected" /\ req[r].status = 401
    /\ req[r].isRetry /\ req[r].sends = 1
    /\ PairStored
    /\ auth = initialState

\* C3: when the renewal succeeded and the resent request fails too, the auth
\* state is cleared (user none, accessToken none, not authenticated) by the
\* time the caller is rejected.
C3_ResendFailureClearsAuth ==
  [][\A r \in Requests :
       (Responded(r) /\ req[r].isRetry /\ req'[r].outcome = "rejected")
         => /\ auth'.user = NoUser
            /\ auth'.accessToken = NoToken
            /\ ~auth'.isAuthenticated]_vars

\* C4: isTokenValid(T) is true exactly when T has a metadata item that parses
\* and now < expiresAt, for every token and for null.
C4_IsTokenValid ==
  \A T \in Tokens \cup {NoToken} :
    isTokenValid(localStorage, T, now)
      <=> /\ T # NoToken
          /\ localStorage.tokenMeta[T].kind = "json"
          /\ now < localStorage.tokenMeta[T].expiresAt

C4_Witness ==
  /\ \E T \in Tokens :
       /\ localStorage.tokenMeta[T].kind = "json"
       /\ now = localStorage.tokenMeta[T].expiresAt
  /\ \E T \in Tokens : localStorage.tokenMeta[T].kind = "garbage"

\* C5: a login that matches a directory entry returns that user and two
\* distinct tokens whose metadata carries the user's id, email and role, with
\* expiresAt = now + 900000 (access) and now + 604800000 (refresh); both are
\* valid, and the pair and the user are in localStorage when login returns.
C5_LoginIssuesPair ==
  [][(loginOp.pc = "fetching" /\ loginOp'.pc = "returned"
        /\ loginOp'.result.code # "TOKEN_INVALID")
       => LET res == loginOp'.result
              hits == {i \in 1..Len(mockUsers) :
                         /\ mockUsers[i].email = loginOp.email
                         /\ mockUsers[i].password = loginOp.password}
          IN IF hits = {} THEN res.kind = "error"
             ELSE /\ res.kind = "data"
                  /\ \E i \in hits : res.user = UserOf(mockUsers[i])
                  /\ res.accessToken \in Tokens
                  /\ res.refreshToken \in Tokens
                  /\ res.accessToken # res.refreshToken
                  /\ localStorage'.tokenMeta[res.accessToken] =
                       JsonItem(res.user.id, res.user.email, res.user.role,
                                now, now + 900000)
                  /\ localStorage'.tokenMeta[res.refreshToken] =
                       JsonItem(res.user.id, res.user.email, res.user.role,
                                now, now + 604800000)
                  /\ isTokenValid(localStorage', res.accessToken, now')
                  /\ isTokenValid(localStorage', res.refreshToken, now')
                  /\ localStorage'.accessToken = res.accessToken
                  /\ localStorage'.refreshToken = res.refreshToken
                  /\ localStorage'.userInfo = res.user]_vars

C5_Witness ==
  /\ loginOp.pc = "returned"
  /\ loginOp.result.kind = "data"
  /\ loginOp.result.user.role = "user"
  /\ localStorage.accessToken = loginOp.result.accessToken

\* the step in which getSession runs
SessionRuns == sessionOp.pc = "idle" /\ sessionOp'.pc = "returned"

\* C6: getSession with a valid stored access token returns that token and
\* the cached user, renews nothing and leaves localStorage as it was.
C6_RestoreWithoutRenewal ==
  [][(SessionRuns /\ PairStored
        /\ isTokenValid(localStorage, localStorage.accessToken, now))
       => /\ sessionOp'.result.kind = "data"
          /\ sessionOp'.result.accessToken = localStorage.accessToken
          /\ sessionOp'.result.user = localStorage.userInfo
          /\ sessionOp'.result.user # NoUser
          /\ sessionOp'.result.user.id
               = localStorage.tokenMeta[localStorage.accessToken].userId
          /\ nextToken' = nextToken
          /\ localStorage' = localStorage]_vars

C6_Witness ==
  /\ sessionOp.pc = "returned"
  /\ sessionOp.result.kind = "data"
  /\ sessionOp.result.accessToken = localStorage.accessToken
  /\ sessionOp.result.user = localStorage.userInfo
  /\ isTokenValid(localStorage, localStorage.accessToken, now)
  /\ nextToken = 3

\* C7: getSession with an invalid stored access token and a valid refresh
\* token mints one access token, different from the stored one, and stores it
\* as accessToken; refreshToken and its metadata stay, no other metadata item
\* changes; when the thunk is fulfilled the auth state is authenticated with
\* the new token.
C7_RestoreWithRenewal ==
  [][/\ (SessionRuns /\ PairStored
           /\ ~isTokenValid(localStorage, localStorage.accessToken, now)
           /\ isTokenValid(localStorage, localStorage.refreshToken, now))
          => LET new == sessionOp'.result.accessToken
             IN /\ sessionOp'.result.kind = "data"
                /\ nextToken' = nextToken + 1
                /\ new = nextToken
                /\ new # localStorage.accessToken
                /\ localStorage'.accessToken = new
                /\ localStorage'.refreshToken = localStorage.refreshToken
                /\ \A t \in Tokens \ {new} :
                     localStorage'.tokenMeta[t] = localStorage.tokenMeta[t]
                /\ localStorage.tokenMeta[new].kind = "absent"
                /\ isTokenValid(localStorage', new, now')
     /\ (sessionOp.pc = "returned" /\ sessionOp.result.kind = "data"
           /\ sessionOp'.pc = "idle")
          => /\ auth'.isAuthenticated
             /\ auth'.accessToken = sessionOp.result.accessToken
             /\ auth'.user = sessionOp.result.user]_vars

C7_Witness ==
  /\ sessionOp.pc = "returned"
  /\ sessionOp.result.kind = "data"
  /\ PairStored
  /\ localStorage.accessToken = sessionOp.result.accessToken
  /\ localStorage.tokenMeta[localStorage.accessToken].kind = "json"
  /\ localStorage.tokenMeta[localStorage.refreshToken].kind = "json"
  /\ localStorage.tokenMeta[localStorage.accessToken].issuedAt
       > localStorage.tokenMeta[localStorage.refreshToken].issuedAt

\* C8: getSession with an invalid stored access token and a refresh token
\* that is expired or has no metadata fails with TOKEN_EXPIRED, and the
\* accessToken, refreshToken and userInfo items and the token_meta_ items of
\* both stored tokens are gone.
C8_RestoreFailureClears ==
  [][(SessionRuns /\ PairStored
        /\ ~isTokenValid(localStorage, localStorage.accessToken, now)
        /\ ~isTokenValid(localStorage, localStorage.refreshToken, now))
       => /\ sessionOp'.result.kind = "error"
          /\ sessionOp'.result.code = "TOKEN_EXPIRED"
          /\ SessionKeysRemoved(localStorage')
          /\ localStorage'.tokenMeta[localStorage.accessToken].kind = "absent"
          /\ localStorage'.tokenMeta[localStorage.refreshToken].kind = "absent"
          /\ nextToken' = nextToken]_vars

C8_Witness ==
  /\ sessionOp.pc = "returned"
  /\ sessionOp.result.code = "TOKEN_EXPIRED"
  /\ SessionKeysRemoved(localStorage)
  /\ nextToken > 1

\* the step in which logout runs
LogoutRuns == logoutOp.pc = "idle" /\ logoutOp'.pc = "returned"

\* C9: logout returns without error from any store and leaves no session
\* data; a logout of the store it leaves returns without error and changes
\* nothing.
C9_LogoutIdempotent ==
  [][LogoutRuns
       => /\ logoutOp'.result.kind = "data"
          /\ SessionKeysRemoved(localStorage')
          /\ ~PairStored'
          /\ logout(localStorage').result.kind = "data"
          /\ logout(localStorage').ls = localStorage'
          /\ (SessionKeysRemoved(localStorage) => localStorage' = localStorage)]_vars

C9_Witness ==
  /\ logoutOp.pc = "returned"
  /\ SessionKeysRemoved(localStorage)
  /\ nextToken > 1
  /\ \A t \in Tokens : localStorage.tokenMeta[t].kind = "absent"

\* C10 (under UserSpec): clearTokens (here in logout) removes accessToken,
\* refreshToken, userInfo and the token_meta_ items of the two stored tokens,
\* and nothing else: other token_meta_ items, custom_users and app_settings
\* stay.
C10_ClearTokensFrame ==
  [][LogoutRuns
       => /\ SessionKeysRemoved(localStorage')
          /\ \A t \in Tokens :
               localStorage'.tokenMeta[t] =
                 IF t \in {localStorage.accessToken, localStorage.refreshToken}
                   THEN NoMetadata
                 ELSE localStorage.tokenMeta[t]
          /\ localStorage'.customUsers = localStorage.customUsers
          /\ localStorage'.appSettings = localStorage.appSettings]_vars

C10_Witness ==
  /\ logoutOp.pc = "returned"
  /\ SessionKeysRemoved(localStorage)
  /\ \E t \in Tokens : localStorage.tokenMeta[t].kind = "json"
  /\ localStorage.customUsers # << >>

\* a renewal: the one step kind that draws exactly one uuid
Renews == nextToken' = nextToken + 1

\* C11 (under UserSpec): the access token a renewal mints carries the userId,
\* email and role of the refresh token's metadata item, whatever custom_users
\* and userInfo hold after a profile edit.
C11_RenewalCopiesRefreshMetadata ==
  [][Renews
       => LET old == localStorage.tokenMeta[localStorage.refreshToken]
              new == localStorage'.tokenMeta[nextToken]
          IN /\ localStorage.refreshToken \in Tokens
             /\ old.kind = "json"
             /\ new.kind = "json"
             /\ new.userId = old.userId
             /\ new.email = old.email
             /\ new.role = old.role
             /\ localStorage'.accessToken = nextToken
             /\ localStorage'.tokenMeta[localStorage.refreshToken] = old]_vars

\* the stored access token was minted by a renewal after a profile edit
\* changed the email, and carries the email of before the edit
C11_Witness ==
  /\ PairStored
  /\ localStorage.accessToken > localStorage.refreshToken
  /\ localStorage.tokenMeta[localStorage.accessToken].kind = "json"
  /\ localStorage.tokenMeta[localStorage.accessToken].userId = localStorage.userInfo.id
  /\ localStorage.tokenMeta[localStorage.accessToken].email # localStorage.userInfo.email
  /\ localStorage.tokenMeta[localStorage.accessToken].email
       = localStorage.tokenMeta[localStorage.refreshToken].email

\* C12: for every refresh token that is not valid (null, never issued, metadata
\* missing or unparsable, expired) refreshAccessToken returns null and
\* localStorage as it was, whatever uuid it would draw.
C12_InvalidRefreshRenewsNothing ==
  \A T \in Tokens \cup {NoToken}, new \in Tokens :
    (T = NoToken
       \/ localStorage.tokenMeta[T].kind # "json"
       \/ now >= localStorage.tokenMeta[T].expiresAt)
      => refreshAccessToken(localStorage, T, new, now)
           = [ls |-> localStorage, accessToken |-> NoToken]

\* a call gave up on a 401 whose renewal met an unparsable refresh token item,
\* beside a token that is expired and one never issued
C12_Witness ==
  /\ PairStored
  /\ localStorage.tokenMeta[localStorage.refreshToken].kind = "garbage"
  /\ localStorage.tokenMeta[localStorage.accessToken].kind = "json"
  /\ now >= localStorage.tokenMeta[localStorage.accessToken].expiresAt
  /\ \E T \in Tokens : localStorage.tokenMeta[T].kind = "absent"
  /\ \E r \in Requests :
       /\ req[r].pc = "done" /\ req[r].outcome = "rejected"
       /\ req[r].status = 401 /\ req[r].sends = 1 /\ req[r].renewed = NoToken

\* C13: isAuthenticated() is true exactly when accessToken and refreshToken
\* are both stored and one of the two has a metadata item that parses with
\* now < expiresAt.
C13_IsAuthenticated ==
  isAuthenticated(localStorage, now)
    <=> /\ localStorage.accessToken # NoToken
        /\ localStorage.refreshToken # NoToken
        /\ \E T \in {localStorage.accessToken, localStorage.refreshToken} :
             /\ localStorage.tokenMeta[T].kind = "json"
             /\ now < localStorage.tokenMeta[T].expiresAt

\* the access token is expired, the refresh token is not
C13_Witness ==
  /\ isAuthenticated(localStorage, now)
  /\ localStorage.tokenMeta[localStorage.accessToken].kind = "json"
  /\ now >= localStorage.tokenMeta[localStorage.accessToken].expiresAt
  /\ now < localStorage.tokenMeta[localStorage.refreshToken].expiresAt

\* the step in which login runs on the fetched directory
LoginRuns ==
  /\ loginOp.pc = "fetching" /\ loginOp'.pc = "returned"
  /\ loginOp'.result.code # "TOKEN_INVALID"

\* C14 (under UserSpec): login matches email and password against the
\* directory with the custom_users records laid over it by id: it succeeds
\* with the merged record when one matches and fails with INVALID_CREDENTIALS
\* when none does.
C14_LoginMatchesMergedDirectory ==
  [][LoginRuns
       => LET user == FindCredential(getAllUsers(localStorage, TRUE),
                                     loginOp.email, loginOp.password)
          IN IF user = NoCredential
               THEN loginOp'.result.code = "INVALID_CREDENTIALS"
             ELSE /\ loginOp'.result.kind = "data"
                  /\ loginOp'.result.user = UserOf(user)]_vars

\* C15: a login whose email and password match no entry of the directory it
\* scans fails with INVALID_CREDENTIALS, draws no uuid and leaves localStorage
\* as it was.
C15_NoMatchChangesNothing ==
  [][(LoginRuns
        /\ \A i \in 1..Len(mockUsers) :
             ~(mockUsers[i].email = loginOp.email
                 /\ mockUsers[i].password = loginOp.password))
       => /\ loginOp'.result.kind = "error"
          /\ loginOp'.result.code = "INVALID_CREDENTIALS"
          /\ loginOp'.result.accessToken = NoToken
          /\ loginOp'.result.refreshToken = NoToken
          /\ nextToken' = nextToken
          /\ localStorage' = localStorage]_vars

\* a login failed while the pair and the user of an earlier login are stored
C15_Witness ==
  /\ loginOp.pc = "returned"
  /\ loginOp.result.code = "INVALID_CREDENTIALS"
  /\ PairStored
  /\ localStorage.userInfo # NoUser
  /\ localStorage.tokenMeta[localStorage.accessToken].kind = "json"

\* what a session manager operation returned: data, or an error of the taxonomy
Returned(op, codes) ==
  op.pc = "returned"
    => \/ op.result.kind = "data"
       \/ /\ op.result.kind = "error"
          /\ op.result.code \in codes
          /\ op.result.code \in AuthErrorCodes
          /\ op.result.message # ""

C17_RejectedReducers ==
  [][/\ (loginOp.pc = "returned" /\ loginOp.result.kind = "error" /\ loginOp'.pc = "idle")
          => /\ auth'.error = loginOp.result.message
             /\ auth'.error # ""
             /\ ~auth'.isAuthenticated
             /\ ~auth'.loading
             /\ auth'.user = auth.user
             /\ auth'.accessToken = auth.accessToken
     /\ (sessionOp.pc = "returned" /\ sessionOp.result.kind = "error"
           /\ sessionOp'.pc = "idle")
          => /\ auth'.error = ""
             /\ ~auth'.isAuthenticated
             /\ ~auth'.loading
             /\ auth'.user = auth.user
             /\ auth'.accessToken = auth.accessToken]_vars

\* a login was rejected in a state that was authenticated
C17_Witness ==
  /\ loginOp.pc = "idle"
  /\ auth.error = "invalid email or password"
  /\ ~auth.isAuthenticated
  /\ ~auth.loading
  /\ auth.accessToken # NoToken

\* C18: logoutThunk.fulfilled and clearAuth() take every auth state to
\* initialState; the step of logout.fulfilled ends in the state clearAuth()
\* would give.
C18_ResetsToInitialState ==
  [][/\ logoutFulfilled(auth) = initialState
     /\ clearAuth(auth) = initialState
     /\ (logoutOp.pc = "returned" /\ logoutOp'.pc = "idle")
          => /\ auth' = initialState
             /\ auth' = clearAuth(auth)]_vars

\* logout.fulfilled reset the state a login had authenticated: two events, a
\* login that stored a pair and the logout that removed it, both settled
C18_Witness ==
  /\ auth = initialState
  /\ events = 2
  /\ nextToken = 3
  /\ ~PairStored
  /\ loginOp.pc = "idle"
  /\ logoutOp.pc = "idle"
  /\ sessionOp.pc = "idle"
  /\ refreshOp.pc = "idle"

\* C19: each time a request goes out the request interceptor takes the token
\* of the auth state, or the stored accessToken when the state has none and a
\* pair is stored; it sets Authorization to that token when there is one,
\* leaves the header alone when there is none, and sets X-Request-ID always.
C19_RequestInterceptor ==
  [][\A r \in Requests :
       (req[r].pc = "config" /\ req'[r].pc = "sent")
         => LET token == IF auth.accessToken # NoToken THEN auth.accessToken
                         ELSE IF localStorage.accessToken # NoToken
                                   /\ localStorage.refreshToken # NoToken
                                THEN localStorage.accessToken
                              ELSE NoToken
            IN /\ req'[r].requestId
               /\ token # NoToken => req'[r].authorization = token
               /\ token = NoToken => req'[r].authorization = req[r].authorization
               /\ (token = NoToken /\ req[r].sends = 0)
                    => req'[r].authorization = NoToken]_vars

\* one request went out with the stored token while the auth state had none,
\* another with no token at all
C19_Witness ==
  /\ auth.accessToken = NoToken
  /\ \E r \in Requests :
       /\ req[r].pc = "sent" /\ req[r].requestId
       /\ req[r].authorization # NoToken
       /\ req[r].authorization = localStorage.accessToken
  /\ \E r \in Requests :
       /\ req[r].pc = "sent" /\ req[r].requestId
       /\ req[r].authorization = NoToken

\* a first 401 of request r meets a stored pair with a valid refresh token
RenewalOf(r) ==
  /\ Responded(r) /\ ~req[r].isRetry /\ req'[r].status = 401
  /\ PairStored
  /\ isTokenValid(localStorage, localStorage.refreshToken, now)

\* C20: each request that gets a first 401 while the stored refresh token is
\* valid mints its own access token, different from the one any other request
\* obtained; after the step localStorage.accessToken and the auth state's
\* accessToken are that token, so after two renewals both hold the later one.
C20_IndependentRenewals ==
  [][\A r \in Requests :
       RenewalOf(r)
         => /\ nextToken' = nextToken + 1
            /\ req'[r].renewed = nextToken
            /\ \A q \in Requests \ {r} :
                 /\ req'[q].renewed # req'[r].renewed
                 /\ req'[q].renewed = req[q].renewed
                 /\ req[q].renewed # NoToken => req'[r].renewed > req[q].renewed
            /\ localStorage.tokenMeta[nextToken].kind = "absent"
            /\ localStorage'.tokenMeta[nextToken].kind = "json"
            /\ localStorage'.accessToken = req'[r].renewed
            /\ auth'.accessToken = req'[r].renewed
            /\ localStorage'.refreshToken = localStorage.refreshToken]_vars

\* both requests renewed; the store and the auth state hold the later token
C20_Witness ==
  /\ \A r \in Requests : req[r].renewed # NoToken /\ req[r].isRetry
  /\ req[1].renewed # req[2].renewed
  /\ \E r \in Requests :
       /\ localStorage.accessToken = req[r].renewed
       /\ auth.accessToken = req[r].renewed
       /\ \A q \in Requests : req[q].renewed <= req[r].renewed

GivesUp(r) ==
  /\ Responded(r) /\ ~req[r].isRetry /\ req'[r].status = 401
  /\ (~PairStored \/ ~isTokenValid(localStorage, localStorage.refreshToken, now))

\* C22: when a request gives up after a failed renewal, localStorage holds no
\* accessToken, refreshToken or userInfo afterwards, and a getSession run then
\* returns an error.
C22_GiveUpTearsDownStore ==
  [][\A r \in Requests :
       GivesUp(r)
         => /\ auth' = initialState
            /\ SessionKeysRemoved(localStorage')
            /\ getSession(localStorage', nextToken', now').result.kind = "error"]_vars

\* C23 (under UserSpec): no two records of the merged directory, the fixture
\* with the custom_users records laid over it, have the same email.
C23_EmailsUnique ==
  LET users == getAllUsers(localStorage, TRUE)
  IN \A i, j \in 1..Len(users) : users[i].email = users[j].email => i = j

\* the resend of request r goes out
Resends(r) == req[r].pc = "config" /\ req[r].isRetry /\ req'[r].pc = "sent"

StoredPair(ls) == {ls.accessToken, ls.refreshToken}
MetaItems(ls) == {T \in Tokens : ls.tokenMeta[T].kind # "absent"}

\* C25: the token_meta_ item of a token that is not, or after the step is no
\* longer, one of the stored pair is left as it is by every step, logout and
\* login included, and the token is valid exactly while now is before the
\* expiresAt it was minted with; a renewal keeps every item and adds one.
C25_SupersededMetadataKept ==
  [][/\ \A T \in Tokens :
          (/\ localStorage.tokenMeta[T].kind = "json"
           /\ \/ T \notin StoredPair(localStorage)
              \/ localStorage'.refreshToken # NoToken /\ T \notin StoredPair(localStorage'))
            => /\ localStorage'.tokenMeta[T] = localStorage.tokenMeta[T]
               /\ isTokenValid(localStorage', T, now')
                    <=> now' < localStorage.tokenMeta[T].expiresAt
     /\ Renews
          => /\ MetaItems(localStorage') = MetaItems(localStorage) \cup {nextToken}
             /\ nextToken \notin MetaItems(localStorage)
             /\ localStorage'.accessToken = nextToken
                  => /\ localStorage.accessToken \in MetaItems(localStorage)
                          => localStorage'.tokenMeta[localStorage.accessToken]
                               = localStorage.tokenMeta[localStorage.accessToken]]_vars

\* a request renewed the access token and a logout followed: the token the
\* renewal replaced still has its item and is still valid
C25_Witness ==
  /\ ~PairStored
  /\ logoutOp.pc = "returned"
  /\ \E r \in Requests :
       /\ req[r].renewed # NoToken
       /\ localStorage.tokenMeta[req[r].renewed].kind = "absent"
       /\ \E T \in Tokens :
            /\ T = req[r].authorization \/ T < req[r].renewed
            /\ localStorage.tokenMeta[T].kind = "json"
            /\ localStorage.tokenMeta[T].expiresAt = ACCESS_TOKEN_EXPIRY
            /\ isTokenValid(localStorage, T, now)

PasswordRuns == passwordOp.pc = "fetching" /\ passwordOp'.pc = "returned"

\* the code changePassword owes to a directory: "" when every check passes
FirstFailure(users, userId, currentPassword, newPassword) ==
  LET k == IndexOfId(users, userId)
  IN IF k = 0 THEN "USER_NOT_FOUND"
     ELSE IF users[k].password # currentPassword THEN "INVALID_PASSWORD"
     ELSE IF Length(newPassword) < MIN_PASSWORD_LENGTH THEN "WEAK_PASSWORD"
     ELSE IF newPassword = currentPassword THEN "SAME_PASSWORD"
     ELSE ""

\* C26 (under UserSpec): changePassword reports the first check that fails
\* against the directory it fetched, in the order USER_NOT_FOUND,
\* INVALID_PASSWORD, WEAK_PASSWORD, SAME_PASSWORD; on an error custom_users is
\* as it was; when every check passes custom_users holds one record of that
\* id with the new password and every other record as it was.
C26_ChangePasswordChecks ==
  [][PasswordRuns
       => \E fetched \in BOOLEAN :
            LET code == FirstFailure(getAllUsers(localStorage, fetched), passwordOp.userId,
                                     passwordOp.currentPassword, passwordOp.newPassword)
                old == localStorage.customUsers
                new == localStorage'.customUsers
            IN IF code # ""
                 THEN /\ passwordOp'.result.kind = "error"
                      /\ passwordOp'.result.code = code
                      /\ localStorage' = localStorage
               ELSE /\ passwordOp'.result.kind = "data"
                    /\ \E k \in 1..Len(new) :
                         /\ new[k].id = passwordOp.userId
                         /\ new[k].password = passwordOp.newPassword
                         /\ \A j \in 1..Len(new) : new[j].id = passwordOp.userId => j = k
                         /\ \A j \in 1..Len(old) : old[j].id # passwordOp.userId => new[j] = old[j]
                         /\ Len(new) = IF IndexOfId(old, passwordOp.userId) = 0
                                         THEN Len(old) + 1 ELSE Len(old)
                    /\ getUserById(localStorage', passwordOp.userId, TRUE).password
                         = passwordOp.newPassword]_vars

\* a password was changed, and a later change that gave the old password was
\* refused
C26_Witness ==
  /\ passwordOp.pc = "returned"
  /\ passwordOp.result.code = "INVALID_PASSWORD"
  /\ passwordOp.currentPassword = "admin123"
  /\ \E k \in 1..Len(localStorage.customUsers) :
       /\ localStorage.customUsers[k].id = "1"
       /\ localStorage.customUsers[k].password = "admin456"

\* C27 (under SliceSpec): in every state the reducers of the slice reach from
\* initialState, in any order and with any payload, an auth state with
\* isAuthenticated set has a user and an access token.
C27_AuthenticatedHasUserAndToken ==
  auth.isAuthenticated => auth.user # NoUser /\ auth.accessToken # NoToken

\* authenticated, with a token other than the first and a rejection's message
\* left in error
C27_Witness ==
  /\ auth.isAuthenticated /\ auth.user # NoUser /\ auth.accessToken > 1
  /\ auth.error # ""

NoPair(ls) == ls.accessToken = NoToken /\ ls.refreshToken = NoToken

LoginSucceeds ==
  loginOp.pc = "fetching" /\ loginOp'.pc = "returned" /\ loginOp'.result.kind = "data"

RefreshRuns == refreshOp.pc = "idle" /\ refreshOp'.pc = "returned"

\* C29: logout leaves localStorage without a pair and the two tokens it held
\* not valid. From then on, until a login succeeds, localStorage stays without
\* a pair: getSession returns SESSION_NOT_FOUND, isAuthenticated() is false,
\* a manual refresh returns an error, a 401 makes the response interceptor
\* give up, nothing is minted, and no token that has lost its token_meta_
\* item gets one again.
C29_NoSessionAfterLogout ==
  [][/\ LogoutRuns
          => /\ NoPair(localStorage')
             /\ \A T \in StoredPair(localStorage) : ~isTokenValid(localStorage', T, now')
     /\ \A T \in Tokens :
          (T < nextToken /\ localStorage.tokenMeta[T].kind = "absent")
            => /\ localStorage'.tokenMeta[T].kind = "absent"
               /\ ~isTokenValid(localStorage', T, now')
     /\ (NoPair(localStorage) /\ ~LoginSucceeds)
          => /\ NoPair(localStorage')
             /\ nextToken' = nextToken
             /\ ~isAuthenticated(localStorage', now')
             /\ getSession(localStorage', nextToken', now').result.code = "SESSION_NOT_FOUND"
             /\ SessionRuns => sessionOp'.result.code = "SESSION_NOT_FOUND"
             /\ RefreshRuns => refreshOp'.result.kind = "error"
             /\ \A r \in Requests :
                  /\ (Responded(r) /\ req'[r].status = 401)
                       => req'[r].outcome = "rejected" /\ req'[r].renewed = req[r].renewed
                  /\ Resends(r) => UNCHANGED localStorage]_vars

\* after a login and a logout, a getSession returned SESSION_NOT_FOUND and a
\* request that got a 401 was given up
C29_Witness ==
  /\ NoPair(localStorage) /\ nextToken > 1
  /\ logoutOp.pc = "returned"
  /\ sessionOp.pc = "returned" /\ sessionOp.result.code = "SESSION_NOT_FOUND"
  /\ \E r \in Requests :
       /\ req[r].status = 401 /\ req[r].outcome = "rejected"
       /\ req[r].authorization # NoToken
       /\ localStorage.tokenMeta[req[r].authorization].kind = "absent"

\* C30: the access token a renewal mints is issued at now and expires at
\* now + ACCESS_TOKEN_EXPIRY, whatever is left of the refresh token's life:
\* at each later instant it is valid exactly when that instant is before
\* now + ACCESS_TOKEN_EXPIRY, the refresh token's expiresAt included.
C30_RenewedExpiryNotCapped ==
  [][Renews
       => LET new == localStorage'.tokenMeta[nextToken]
              refresh == localStorage.tokenMeta[localStorage.refreshToken]
          IN /\ new.kind = "json"
             /\ new.issuedAt = now
             /\ new.expiresAt = now + ACCESS_TOKEN_EXPIRY
             /\ refresh.kind = "json" /\ now < refresh.expiresAt
             /\ \A t \in Instants \cup {refresh.expiresAt} :
                  t >= now => (isTokenValid(localStorage', nextToken, t)
                                 <=> t < now + ACCESS_TOKEN_EXPIRY)]_vars

\* the stored access token, minted by a renewal while the refresh token had
\* less than ACCESS_TOKEN_EXPIRY to live, is valid and the stored refresh
\* token has expired
C30_Witness ==
  /\ PairStored
  /\ localStorage.tokenMeta[localStorage.refreshToken].kind = "json"
  /\ localStorage.tokenMeta[localStorage.accessToken].issuedAt
       > localStorage.tokenMeta[localStorage.refreshToken].issuedAt
  /\ isTokenValid(localStorage, localStorage.accessToken, now)
  /\ ~isTokenValid(localStorage, localStorage.refreshToken, now)

====
